---- MODULE Spec2Model ----
(***************************************************************************)
(* A model of pygraphdb's GraphDB (src/src/graphdb.py) over an abstract    *)
(* KVStore (src/src/kvstores.py) with three partitions: nodes, edges and   *)
(* adjacency.  A partition is a function whose DOMAIN is the set of keys   *)
(* currently stored, i.e. a dictionary.                                    *)
(***************************************************************************)
EXTENDS Integers, Sequences, FiniteSets, TLC

(***************************************************************************)
(* Bounds of the model.                                                    *)
(***************************************************************************)
NumNodes == 2
NumEdges == 2
MaxAdjLen == 2
MaxBatch == 2
MaxOps == 3
MaxIds == 3
MaxBuild == 4
OrderNodes == 4
OrderEdges == 3
MaxDirect == 1

NodeNames == <<"A", "B", "C", "D", "E", "F">>
EdgeNames == <<"e1", "e2", "e3", "e4", "e5">>
NodeIds == {NodeNames[i] : i \in 1..NumNodes}
EdgeIds == {EdgeNames[i] : i \in 1..NumEdges}

\* Property mappings, as sets of <<key, value>> pairs; {} is the empty dict.
EmptyProps == {}
Props == {EmptyProps, {<<"w", 1>>}}

\* merge_func arguments of update_node / update_edge.
MergeFns == {"update", "replace"}

(***************************************************************************)
(* Generic helpers: dictionaries and lists.                                *)
(***************************************************************************)
EmptyDict == <<>>

DictPut(d, k, v) == [j \in (DOMAIN d) \cup {k} |-> IF j = k THEN v ELSE d[j]]

DictPutAll(d, u) ==
  [j \in (DOMAIN d) \cup (DOMAIN u) |-> IF j \in DOMAIN u THEN u[j] ELSE d[j]]

DictDelete(d, k) == [j \in (DOMAIN d) \ {k} |-> d[j]]

ToSet(s) == {s[i] : i \in DOMAIN s}

Count(s, x) == Cardinality({i \in DOMAIN s : s[i] = x})

\* list.remove(x): drops the first occurrence of x only.
ListRemove(s, x) ==
  LET i == CHOOSE j \in DOMAIN s : s[j] = x /\ \A k \in 1..(j - 1) : s[k] # x
  IN  SubSeq(s, 1, i - 1) \o SubSeq(s, i + 1, Len(s))

Perms(S) ==
  {p \in [1..Cardinality(S) -> S] : \A i, j \in DOMAIN p : i # j => p[i] # p[j]}

\* list(a_set): the elements of S once each; the iteration order of a Python
\* set is not specified, so it is a parameter (a priority order on edge ids).
SetToList(S, ord) == SelectSeq(ord, LAMBDA x : x \in S)

(***************************************************************************)
(* Entities and serialization.                                             *)
(***************************************************************************)
\* `properties or {}` of the constructors.
PropsOrEmpty(p) == IF p = EmptyProps THEN EmptyProps ELSE p

Node(node_id, properties) ==
  [id |-> node_id, properties |-> PropsOrEmpty(properties)]

Edge(edge_id, source, target, properties) ==
  [id |-> edge_id, source |-> source, target |-> target,
   properties |-> PropsOrEmpty(properties)]

Node_to_dict(n) == [id |-> n.id, properties |-> n.properties]

Node_from_dict(d) == Node(d.id, d.properties)

Edge_to_dict(e) ==
  [id |-> e.id, source |-> e.source, target |-> e.target,
   properties |-> e.properties]

\* The source / target of the placeholder edge of update_edge (Python None).
NoEndpoint == "<None>"

\* to_dict reads source.get_id when source is not a str: None has no get_id.
Edge_to_dict_raises(e) == e.source = NoEndpoint \/ e.target = NoEndpoint

\* Edge_from_dict with source and target exchanged.
Edge_from_dict_swapped(d) == Edge(d.id, d.target, d.source, d.properties)

Edge_from_dict(d) == Edge(d.id, d.source, d.target, d.properties)

\* Serializer.serialize / deserialize: an opaque byte payload around the value.
serialize(obj) == [bytes |-> obj]

deserialize(data) == data.bytes

\* A Python list held by an adjacency record.  A dict is a function on its
\* keys, so the empty dict {} and the empty list [] are different values.
PyList(items) == [list |-> items]

is_list(obj) == DOMAIN obj = {"list"}

\* Python's `item in obj`: an element of a list, a key of a dict.
Contains(obj, item) ==
  IF is_list(obj) THEN item \in {obj.list[i] : i \in DOMAIN obj.list}
  ELSE item \in DOMAIN obj

(***************************************************************************)
(* GraphDB methods as functions of the store st = [nodes, edges, adj].     *)
(* A writing method returns the new store and whether it raised.           *)
(***************************************************************************)
None == [none |-> TRUE]

Store(n, e, a) == [nodes |-> n, edges |-> e, adj |-> a]

Result(n, e, a, r) == [nodes |-> n, edges |-> e, adj |-> a, raised |-> r]

\* The outcome of a call that reads a list where it needs a dict: a list has
\* no get(), no setdefault() and no string index.
AttributeError == [raised |-> "AttributeError"]

\* KVStore.get_*: the stored bytes, or None.
store_get(d, k) == IF k \in DOMAIN d THEN d[k] ELSE None

GraphDB_put_node(st, node) ==
  Result(DictPut(st.nodes, node.id, serialize(Node_to_dict(node))),
         st.edges, st.adj, FALSE)

get_node(st, node_id) ==
  LET data == store_get(st.nodes, node_id)
  IN  IF data # None THEN Node_from_dict(deserialize(data)) ELSE None

\* delete_node that also drops the node's adjacency record.
GraphDB_delete_node_cascade(st, node_id) ==
  Result(DictDelete(st.nodes, node_id), st.edges, DictDelete(st.adj, node_id), FALSE)

GraphDB_delete_node(st, node_id) ==
  Result(DictDelete(st.nodes, node_id), st.edges, st.adj, FALSE)

get_edge(st, edge_id) ==
  LET data == store_get(st.edges, edge_id)
  IN  IF data # None THEN Edge_from_dict(deserialize(data)) ELSE None

\* put_adjacency_list: the serialized edges_list is put under node_id,
\* whatever the record stored there and whatever edges are stored.
GraphDB_put_adjacency_list(st, node_id, edges_list) ==
  Result(st.nodes, st.edges, DictPut(st.adj, node_id, serialize(edges_list)), FALSE)

\* One iteration of the loop of put_edge over ('source', edge.source) and
\* ('target', edge.target).
put_edge_adjacency(adj, dict_flag, io_node, edge_id) ==
  LET adj_list == store_get(adj, io_node)
  IN  IF adj_list = None
      THEN DictPut(adj, io_node, serialize(DictPut(EmptyDict, dict_flag, <<edge_id>>)))
      ELSE LET adj_edge_list == deserialize(adj_list)
               old == IF dict_flag \in DOMAIN adj_edge_list
                      THEN adj_edge_list[dict_flag] ELSE <<>>
           IN  DictPut(adj, io_node,
                       serialize(DictPut(adj_edge_list, dict_flag, Append(old, edge_id))))

\* The loop of put_edge at a node whose stored record is a list:
\* adj_edge_list.setdefault raises, after the read and before any write.
put_edge_adjacency_raises(adj, io_node) ==
  LET adj_list == store_get(adj, io_node)
  IN  adj_list # None /\ is_list(deserialize(adj_list))

\* put_edge that updates the adjacency records whatever update_adjacency is.
GraphDB_put_edge_always_adjacency(st, edge, update_adjacency) ==
  LET e1 == DictPut(st.edges, edge.id, serialize(Edge_to_dict(edge)))
      a1 == put_edge_adjacency(st.adj, "source", edge.source, edge.id)
      a2 == put_edge_adjacency(a1, "target", edge.target, edge.id)
  IN  IF Edge_to_dict_raises(edge)
      THEN Result(st.nodes, st.edges, st.adj, TRUE)
      ELSE IF put_edge_adjacency_raises(st.adj, edge.source)
      THEN Result(st.nodes, e1, st.adj, TRUE)
      ELSE IF put_edge_adjacency_raises(a1, edge.target)
      THEN Result(st.nodes, e1, a1, TRUE)
      ELSE Result(st.nodes, e1, a2, FALSE)

\* put_edge: the edge record is written first; the loop then raises at the
\* first endpoint whose record is a list, with the writes made so far kept.
GraphDB_put_edge(st, edge, update_adjacency) ==
  LET e1 == DictPut(st.edges, edge.id, serialize(Edge_to_dict(edge)))
      a1 == put_edge_adjacency(st.adj, "source", edge.source, edge.id)
      a2 == put_edge_adjacency(a1, "target", edge.target, edge.id)
  IN  IF Edge_to_dict_raises(edge)
      THEN Result(st.nodes, st.edges, st.adj, TRUE)
      ELSE IF ~update_adjacency
      THEN Result(st.nodes, e1, st.adj, FALSE)
      ELSE IF put_edge_adjacency_raises(st.adj, edge.source)
      THEN Result(st.nodes, e1, st.adj, TRUE)
      ELSE IF put_edge_adjacency_raises(a1, edge.target)
      THEN Result(st.nodes, e1, a1, TRUE)
      ELSE Result(st.nodes, e1, a2, FALSE)

\* get_adjacency_list(node_id, return_raw = True): the stored value, a dict
\* or a list, or the list [] when no record is stored.
get_adjacency_raw(st, node_id) ==
  LET raw == store_get(st.adj, node_id)
  IN  IF raw = None THEN PyList(<<>>) ELSE deserialize(raw)

DictGet(d, k, default) == IF k \in DOMAIN d THEN d[k] ELSE default

\* get_adjacency_list without return_raw on a stored record that is a list:
\* adj.get raises.
get_adjacency_list_raises(st, node_id) ==
  LET raw == store_get(st.adj, node_id)
  IN  raw # None /\ is_list(deserialize(raw))

\* get_adjacency_list whose 'any' concatenates the two lists without set().
get_adjacency_list_concat(st, node_id, direction, ord) ==
  LET raw == store_get(st.adj, node_id)
      adj == deserialize(raw)
  IN  IF raw = None THEN <<>>
      ELSE IF is_list(adj) THEN AttributeError
      ELSE CASE direction = "forward"  -> DictGet(adj, "target", <<>>)
             [] direction = "backward" -> DictGet(adj, "source", <<>>)
             [] direction = "any" ->
                  DictGet(adj, "source", <<>>) \o DictGet(adj, "target", <<>>)

\* get_adjacency_list without return_raw: [] for an absent record, the list
\* the direction reads for a dict, AttributeError for a list.
get_adjacency_list(st, node_id, direction, ord) ==
  LET raw == store_get(st.adj, node_id)
      adj == deserialize(raw)
  IN  IF raw = None THEN <<>>
      ELSE IF is_list(adj) THEN AttributeError
      ELSE CASE direction = "forward"  -> DictGet(adj, "target", <<>>)
             [] direction = "backward" -> DictGet(adj, "source", <<>>)
             [] direction = "any" ->
                  SetToList(ToSet(DictGet(adj, "source", <<>>))
                              \cup ToSet(DictGet(adj, "target", <<>>)), ord)

\* _remove_edge_from_adjacency: the adjacency partition afterwards.
remove_edge_from_adjacency(st, node_id, edge_id) ==
  LET adj_list == get_adjacency_raw(st, node_id)
      hit(dir) == Contains(adj_list, dir) /\ edge_id \in ToSet(adj_list[dir])
      new_list == [dir \in DOMAIN adj_list |->
                     IF hit(dir) THEN ListRemove(adj_list[dir], edge_id)
                     ELSE adj_list[dir]]
      changed == hit("source") \/ hit("target")
  IN  IF changed THEN DictPut(st.adj, node_id, serialize(new_list)) ELSE st.adj

\* delete_edge that, for an id without edge record, drops every adjacency
\* record that lists the id.
GraphDB_delete_edge_scrub(st, edge_id) ==
  LET e == get_edge(st, edge_id)
      a1 == remove_edge_from_adjacency(st, e.source, edge_id)
      a2 == IF e.target # e.source
            THEN remove_edge_from_adjacency(Store(st.nodes, st.edges, a1), e.target, edge_id)
            ELSE a1
      listed == {n \in DOMAIN st.adj :
                   \E role \in DOMAIN deserialize(st.adj[n]) :
                     edge_id \in ToSet(deserialize(st.adj[n])[role])}
  IN  IF e = None
      THEN Result(st.nodes, st.edges, [n \in (DOMAIN st.adj) \ listed |-> st.adj[n]], FALSE)
      ELSE Result(st.nodes, DictDelete(st.edges, edge_id), a2, FALSE)

\* delete_edge without the final store.delete_edge call.
GraphDB_delete_edge_keep_record(st, edge_id) ==
  LET e == get_edge(st, edge_id)
      a1 == remove_edge_from_adjacency(st, e.source, edge_id)
      a2 == IF e.target # e.source
            THEN remove_edge_from_adjacency(Store(st.nodes, st.edges, a1), e.target, edge_id)
            ELSE a1
  IN  IF e = None
      THEN Result(st.nodes, st.edges, st.adj, FALSE)
      ELSE Result(st.nodes, st.edges, a2, FALSE)

GraphDB_delete_edge(st, edge_id) ==
  LET e == get_edge(st, edge_id)
      a1 == remove_edge_from_adjacency(st, e.source, edge_id)
      a2 == IF e.target # e.source
            THEN remove_edge_from_adjacency(Store(st.nodes, st.edges, a1), e.target, edge_id)
            ELSE a1
  IN  IF e = None
      THEN Result(st.nodes, st.edges, st.adj, FALSE)
      ELSE Result(st.nodes, DictDelete(st.edges, edge_id), a2, FALSE)

\* The caller's merge_func(old_properties, new_data).
Merge(merge_func, old, new_data) ==
  IF merge_func = "replace" THEN new_data
  ELSE new_data \cup {p \in old : \A q \in new_data : q[1] # p[1]}

\* update_edge: a missing edge becomes Edge(edge_id, None, None, {}) and goes
\* through put_edge like a stored one.
GraphDB_update_edge(st, edge_id, new_data, merge_func) ==
  LET got == get_edge(st, edge_id)
      old_edge == IF got = None
                  THEN Edge(edge_id, NoEndpoint, NoEndpoint, EmptyProps)
                  ELSE got
      merged == [old_edge EXCEPT
                   !.properties = Merge(merge_func, old_edge.properties, new_data)]
  IN  GraphDB_put_edge(st, merged, TRUE)

\* update_node that merges new_data into {} whether or not a node is stored.
update_node_merged_from_empty(st, node_id, new_data, merge_func) ==
  LET old_node == Node(node_id, EmptyProps)
  IN  [old_node EXCEPT
         !.properties = Merge(merge_func, old_node.properties, new_data)]

\* update_node: old_node after `old_node.properties = merged_props`, the node
\* that is put and returned.
update_node_merged(st, node_id, new_data, merge_func) ==
  LET got == get_node(st, node_id)
      old_node == IF got = None THEN Node(node_id, EmptyProps) ELSE got
  IN  [old_node EXCEPT
         !.properties = Merge(merge_func, old_node.properties, new_data)]

GraphDB_update_node(st, node_id, new_data, merge_func) ==
  GraphDB_put_node(st, update_node_merged(st, node_id, new_data, merge_func))

\* put_nodes: to_store, the last node of each id wins.
put_nodes_to_store(ns) ==
  [k \in {ns[i].id : i \in DOMAIN ns} |->
     LET i == CHOOSE j \in DOMAIN ns :
                ns[j].id = k /\ \A m \in (j + 1)..Len(ns) : ns[m].id # k
     IN  serialize(Node_to_dict(ns[i]))]

GraphDB_put_nodes(st, ns) ==
  Result(DictPutAll(st.nodes, put_nodes_to_store(ns)), st.edges, st.adj, FALSE)

\* KVStore.get_nodes_bulk: the stored bytes of the ids that are found.
get_nodes_bulk(d, node_ids) ==
  [k \in {node_ids[i] : i \in DOMAIN node_ids} \cap DOMAIN d |-> d[k]]

\* get_nodes without the else branch: an id that is not found is skipped.
get_nodes_skip_missing(st, node_ids) ==
  LET raw_dict == get_nodes_bulk(st.nodes, node_ids)
      found == SelectSeq(node_ids, LAMBDA node_id : node_id \in DOMAIN raw_dict)
  IN  [i \in 1..Len(found) |-> Node_from_dict(deserialize(raw_dict[found[i]]))]

get_nodes(st, node_ids) ==
  LET raw_dict == get_nodes_bulk(st.nodes, node_ids)
  IN  [i \in 1..Len(node_ids) |->
         IF node_ids[i] \in DOMAIN raw_dict
         THEN Node_from_dict(deserialize(raw_dict[node_ids[i]]))
         ELSE None]

\* put_edges_bulk, step 1: edge_dict, the last edge of each id wins.
bulk_edge_dict(edges) ==
  [k \in {edges[i].id : i \in DOMAIN edges} |->
     LET i == CHOOSE j \in DOMAIN edges :
                edges[j].id = k /\ \A m \in (j + 1)..Len(edges) : edges[m].id # k
     IN  serialize(Edge_to_dict(edges[i]))]

\* The ids of the edges of the batch that have node n in the given role, in
\* batch order.
IdsOf(edges, role, n) ==
  LET sel == SelectSeq(edges, LAMBDA e : e[role] = n)
  IN  [i \in 1..Len(sel) |-> sel[i].id]

\* adjacency_accumulator that files every edge under 'source' at both ends.
adjacency_accumulator_one_role(edges) ==
  [n \in {edges[i].source : i \in DOMAIN edges} \cup {edges[i].target : i \in DOMAIN edges} |->
     [target |-> <<>>,
      source |-> IdsOf(edges, "source", n) \o IdsOf(edges, "target", n)]]

\* put_edges_bulk, step 2: adjacency_accumulator.
adjacency_accumulator(edges) ==
  [n \in {edges[i].source : i \in DOMAIN edges} \cup {edges[i].target : i \in DOMAIN edges} |->
     [target |-> IdsOf(edges, "target", n), source |-> IdsOf(edges, "source", n)]]

\* A stored dict deserializes to lists, and a list has no union(): the
\* loop of step 4 raises at a node whose record has a stored list.  At a
\* node whose record is itself a list, old_edges['target'] = set() raises.
bulk_union_raises(st, node_id) ==
  LET raw_adj == store_get(st.adj, node_id)
  IN  raw_adj # None /\
        (is_list(deserialize(raw_adj)) \/ DOMAIN deserialize(raw_adj) # {})

\* put_edges_bulk, step 4: old_edges[role] of one node, as a set of ids.
bulk_old_edges(st, node_id, role) ==
  LET raw_adj == store_get(st.adj, node_id)
  IN  IF raw_adj = None THEN {}
      ELSE IF role \notin DOMAIN deserialize(raw_adj) THEN {}
      ELSE ToSet(deserialize(raw_adj)[role])

\* put_edges_bulk, step 4: the new record of one node.
bulk_final_adjacency(st, acc, node_id, ord) ==
  LET source_edges == bulk_old_edges(st, node_id, "source") \cup ToSet(acc[node_id].source)
      target_edges == bulk_old_edges(st, node_id, "target") \cup ToSet(acc[node_id].target)
  IN  serialize([source |-> SetToList(source_edges, ord),
                 target |-> SetToList(target_edges, ord)])

GraphDB_put_edges_bulk(st, edges, ord) ==
  LET acc == adjacency_accumulator(edges)
      e1 == DictPutAll(st.edges, bulk_edge_dict(edges))
      final_adjacency == [n \in DOMAIN acc |-> bulk_final_adjacency(st, acc, n, ord)]
  IN  IF \E i \in DOMAIN edges : Edge_to_dict_raises(edges[i])
      THEN Result(st.nodes, st.edges, st.adj, TRUE)
      ELSE IF \E n \in DOMAIN acc : bulk_union_raises(st, n)
      THEN Result(st.nodes, e1, st.adj, TRUE)
      ELSE Result(st.nodes, e1, DictPutAll(st.adj, final_adjacency), FALSE)

\* The neighbor of current along the edge e_id.
bfs_neighbor(st, current, e_id) ==
  LET edge_obj == get_edge(st, e_id)
  IN  IF edge_obj.source = current THEN edge_obj.target ELSE edge_obj.source

\* One iteration of the while loop that appends current to result even when
\* current was visited before.
bfs_step_append_always(st, direction, ord, queue, visited, result) ==
  LET current == Head(queue)
      visited1 == visited \cup {current}
      edges_list == get_adjacency_list(st, current, direction, ord)
      found == SelectSeq(edges_list, LAMBDA e_id : get_edge(st, e_id) # None)
      pushed == SelectSeq([i \in 1..Len(found) |-> bfs_neighbor(st, current, found[i])],
                          LAMBDA n : n \notin visited1)
  IN  IF current \in visited
      THEN [queue |-> Tail(queue), visited |-> visited,
            result |-> Append(result, current)]
      ELSE [queue |-> Tail(queue) \o pushed, visited |-> visited1,
            result |-> Append(result, current)]

\* One iteration of the while loop with queue.pop() in place of
\* queue.pop(0): the queue is used as a stack.
bfs_step_stack(st, direction, ord, queue, visited, result) ==
  LET current == queue[Len(queue)]
      rest == SubSeq(queue, 1, Len(queue) - 1)
      visited1 == visited \cup {current}
      edges_list == get_adjacency_list(st, current, direction, ord)
      found == SelectSeq(edges_list, LAMBDA e_id : get_edge(st, e_id) # None)
      pushed == SelectSeq([i \in 1..Len(found) |-> bfs_neighbor(st, current, found[i])],
                          LAMBDA n : n \notin visited1)
  IN  IF current \in visited
      THEN [queue |-> rest, visited |-> visited, result |-> result]
      ELSE [queue |-> rest \o pushed, visited |-> visited1,
            result |-> Append(result, current)]

\* The iteration of the while loop raises: get_adjacency_list is called for
\* a node that was not visited and whose record is a list.
bfs_step_raises(st, queue, visited) ==
  Head(queue) \notin visited /\ get_adjacency_list_raises(st, Head(queue))

\* One iteration of the while loop of bfs: queue, visited and result after
\* it, or as they are when get_adjacency_list raises.
bfs_step(st, direction, ord, queue, visited, result) ==
  LET current == Head(queue)
      visited1 == visited \cup {current}
      edges_list == get_adjacency_list(st, current, direction, ord)
      found == SelectSeq(edges_list, LAMBDA e_id : get_edge(st, e_id) # None)
      pushed == SelectSeq([i \in 1..Len(found) |-> bfs_neighbor(st, current, found[i])],
                          LAMBDA n : n \notin visited1)
  IN  IF current \in visited
      THEN [queue |-> Tail(queue), visited |-> visited, result |-> result]
      ELSE IF get_adjacency_list_raises(st, current)
      THEN [queue |-> Tail(queue), visited |-> visited1,
            result |-> Append(result, current)]
      ELSE [queue |-> Tail(queue) \o pushed, visited |-> visited1,
            result |-> Append(result, current)]

\* The while loop of bfs: the result, or the error of an iteration.
RECURSIVE bfs_loop(_, _, _, _, _, _)
bfs_loop(st, direction, ord, queue, visited, result) ==
  IF queue = <<>> THEN result
  ELSE IF bfs_step_raises(st, queue, visited) THEN AttributeError
  ELSE LET after == bfs_step(st, direction, ord, queue, visited, result)
       IN  bfs_loop(st, direction, ord, after.queue, after.visited, after.result)

bfs(st, start_node_id, direction, ord) ==
  bfs_loop(st, direction, ord, <<start_node_id>>, {}, <<>>)

(***************************************************************************)
(* GraphDB methods one KVStore call at a time.  A thread th = [op, pc, arg, *)
(* todo, local] is a caller inside the method op: pc names the KVStore     *)
(* call it makes next, todo holds the items its loop has not reached, and  *)
(* local what it computed from its last read and has not written.  A step  *)
(* returns the store and the thread after the call, and the call made.     *)
(***************************************************************************)
IdleThread == [op |-> "none", pc |-> "idle", arg |-> <<>>, todo |-> <<>>, local |-> <<>>]

Thread(op, pc, arg, todo, local) ==
  [op |-> op, pc |-> pc, arg |-> arg, todo |-> todo, local |-> local]

\* A KVStore call: its name, its key and the value it read or wrote.
StoreCall(call, key, value) == [call |-> call, key |-> key, value |-> value]

Stepped(n, e, a, th, entry) ==
  [nodes |-> n, edges |-> e, adj |-> a, th |-> th, entry |-> entry]

\* delete_edge that removes the id at e.source and at e.target without
\* comparing the two.
delete_edge_endpoints_both(e) == <<e.source, e.target>>

\* delete_edge: the nodes _remove_edge_from_adjacency is called for.
delete_edge_endpoints(e) ==
  IF e.target # e.source THEN <<e.source, e.target>> ELSE <<e.source>>

\* The loop of _remove_edge_from_adjacency without the remove call.
adjacency_without_keeps_id(adj_list, edge_id) ==
  LET hit(dir) == Contains(adj_list, dir) /\ edge_id \in ToSet(adj_list[dir])
  IN  [changed |-> hit("source") \/ hit("target"),
       new_list |-> adj_list]

\* The loop of _remove_edge_from_adjacency over the value it read: 'source'
\* and 'target' are looked up with `in`, so a list of edge ids, [] included,
\* is left as it is and _changed stays False.
adjacency_without(adj_list, edge_id) ==
  LET hit(dir) == Contains(adj_list, dir) /\ edge_id \in ToSet(adj_list[dir])
  IN  [changed |-> hit("source") \/ hit("target"),
       new_list |-> [dir \in DOMAIN adj_list |->
                       IF hit(dir) THEN ListRemove(adj_list[dir], edge_id)
                       ELSE adj_list[dir]]]

\* delete_edge after the loop item Head(th.todo): the next item, or the
\* final store.delete_edge.
delete_edge_next(th) ==
  [th EXCEPT !.todo = Tail(th.todo), !.local = <<>>,
             !.pc = IF Tail(th.todo) = <<>> THEN "delete_edge" ELSE "get_adjacency"]

delete_edge_store_call(st, th) ==
  CASE th.pc = "get_edge" ->
         LET e == get_edge(st, th.arg.edge_id)
         IN  Stepped(st.nodes, st.edges, st.adj,
                     IF e = None THEN [th EXCEPT !.pc = "returned"]
                     ELSE [th EXCEPT !.pc = "get_adjacency",
                                     !.todo = delete_edge_endpoints(e)],
                     StoreCall("get_edge", th.arg.edge_id, store_get(st.edges, th.arg.edge_id)))
    [] th.pc = "get_adjacency" ->
         LET node_id == Head(th.todo)
             rem == adjacency_without(get_adjacency_raw(st, node_id), th.arg.edge_id)
         IN  Stepped(st.nodes, st.edges, st.adj,
                     IF rem.changed
                     THEN [th EXCEPT !.pc = "put_adjacency", !.local = rem.new_list]
                     ELSE delete_edge_next(th),
                     StoreCall("get_adjacency", node_id, store_get(st.adj, node_id)))
    [] th.pc = "put_adjacency" ->
         LET node_id == Head(th.todo)
         IN  Stepped(st.nodes, st.edges, DictPut(st.adj, node_id, serialize(th.local)),
                     delete_edge_next(th),
                     StoreCall("put_adjacency", node_id, serialize(th.local)))
    [] th.pc = "delete_edge" ->
         Stepped(st.nodes, DictDelete(st.edges, th.arg.edge_id), st.adj,
                 [th EXCEPT !.pc = "returned"],
                 StoreCall("delete_edge", th.arg.edge_id, None))

\* update_node: get_node, then put_node of the merged node.
update_node_store_call(st, th) ==
  CASE th.pc = "get_node" ->
         Stepped(st.nodes, st.edges, st.adj,
                 [th EXCEPT !.pc = "put_node",
                            !.local = update_node_merged(st, th.arg.node_id, th.arg.new_data,
                                                         th.arg.merge_func)],
                 StoreCall("get_node", th.arg.node_id, store_get(st.nodes, th.arg.node_id)))
    [] th.pc = "put_node" ->
         Stepped(GraphDB_put_node(st, th.local).nodes, st.edges, st.adj,
                 [th EXCEPT !.pc = "returned"],
                 StoreCall("put_node", th.arg.node_id, serialize(Node_to_dict(th.local))))

\* put_edge after the loop item Head(th.todo).
put_edge_next(th) ==
  [th EXCEPT !.todo = Tail(th.todo), !.local = <<>>,
             !.pc = IF Tail(th.todo) = <<>> THEN "returned" ELSE "get_adjacency"]

\* put_edge: store.put_edge, then get_adjacency and put_adjacency for
\* ('source', edge.source) and for ('target', edge.target).
put_edge_store_call(st, th) ==
  CASE th.pc = "put_edge" ->
         LET edge == th.arg.edge
             value == serialize(Edge_to_dict(edge))
         IN  IF Edge_to_dict_raises(edge)
             THEN Stepped(st.nodes, st.edges, st.adj, [th EXCEPT !.pc = "raised"],
                          StoreCall("none", edge.id, None))
             ELSE Stepped(st.nodes, DictPut(st.edges, edge.id, value), st.adj,
                          IF th.arg.update_adjacency
                          THEN [th EXCEPT !.pc = "get_adjacency",
                                          !.todo = << <<"source", edge.source>>,
                                                      <<"target", edge.target>> >>]
                          ELSE [th EXCEPT !.pc = "returned"],
                          StoreCall("put_edge", edge.id, value))
    [] th.pc = "get_adjacency" ->
         LET dict_flag == Head(th.todo)[1]
             io_node == Head(th.todo)[2]
         IN  Stepped(st.nodes, st.edges, st.adj,
                     IF put_edge_adjacency_raises(st.adj, io_node)
                     THEN [th EXCEPT !.pc = "raised"]
                     ELSE [th EXCEPT !.pc = "put_adjacency",
                                     !.local = put_edge_adjacency(st.adj, dict_flag, io_node,
                                                                  th.arg.edge.id)[io_node]],
                     StoreCall("get_adjacency", io_node, store_get(st.adj, io_node)))
    [] th.pc = "put_adjacency" ->
         LET io_node == Head(th.todo)[2]
         IN  Stepped(st.nodes, st.edges, DictPut(st.adj, io_node, th.local),
                     put_edge_next(th),
                     StoreCall("put_adjacency", io_node, th.local))

\* The first i elements of s without repeats, in order of first appearance.
RECURSIVE FirstSeen(_, _)
FirstSeen(s, i) ==
  IF i = 0 THEN <<>>
  ELSE LET before == FirstSeen(s, i - 1)
       IN  IF s[i] \in ToSet(before) THEN before ELSE Append(before, s[i])

\* The endpoints of the batch, one entry per edge end.
bulk_nodes_per_edge_end(edges) ==
  LET ends == [i \in 1..(2 * Len(edges)) |->
                 IF i % 2 = 1 THEN edges[(i + 1) \div 2].source
                 ELSE edges[i \div 2].target]
  IN  ends

\* adjacency_accumulator.items(): the endpoints of the batch in the order
\* the first loop inserts them.
bulk_nodes(edges) ==
  LET ends == [i \in 1..(2 * Len(edges)) |->
                 IF i % 2 = 1 THEN edges[(i + 1) \div 2].source
                 ELSE edges[i \div 2].target]
  IN  FirstSeen(ends, Len(ends))

\* put_adjacency_bulk that leaves the records of keys that are stored.
put_adjacency_bulk_keep_stored(d, keys_and_values) ==
  [j \in (DOMAIN d) \cup (DOMAIN keys_and_values) |->
     IF j \in DOMAIN d THEN d[j] ELSE keys_and_values[j]]

\* KVStore.put_adjacency_bulk: one write batch.
put_adjacency_bulk(d, keys_and_values) == DictPutAll(d, keys_and_values)

\* put_edges_bulk after the loop item Head(th.todo).
put_edges_bulk_next(th, final_adjacency) ==
  [th EXCEPT !.todo = Tail(th.todo), !.local = final_adjacency,
             !.pc = IF Tail(th.todo) = <<>> THEN "put_adjacency_bulk"
                    ELSE "get_adjacency"]

\* put_edges_bulk: store.put_edges_bulk, one get_adjacency per node of
\* adjacency_accumulator, then store.put_adjacency_bulk(final_adjacency).
put_edges_bulk_store_call(st, th) ==
  CASE th.pc = "put_edges_bulk" ->
         LET edges == th.arg.edges
             edge_dict == bulk_edge_dict(edges)
             todo == bulk_nodes(edges)
         IN  IF \E i \in DOMAIN edges : Edge_to_dict_raises(edges[i])
             THEN Stepped(st.nodes, st.edges, st.adj, [th EXCEPT !.pc = "raised"],
                          StoreCall("none", DOMAIN edge_dict, None))
             ELSE Stepped(st.nodes, DictPutAll(st.edges, edge_dict), st.adj,
                          [th EXCEPT !.todo = todo, !.local = EmptyDict,
                                     !.pc = IF todo = <<>> THEN "put_adjacency_bulk"
                                            ELSE "get_adjacency"],
                          StoreCall("put_edges_bulk", DOMAIN edge_dict, edge_dict))
    [] th.pc = "get_adjacency" ->
         LET node_id == Head(th.todo)
             acc == adjacency_accumulator(th.arg.edges)
             entry == StoreCall("get_adjacency", node_id, store_get(st.adj, node_id))
         IN  IF bulk_union_raises(st, node_id)
             THEN Stepped(st.nodes, st.edges, st.adj, [th EXCEPT !.pc = "raised"], entry)
             ELSE Stepped(st.nodes, st.edges, st.adj,
                          put_edges_bulk_next(th,
                            DictPut(th.local, node_id,
                                    bulk_final_adjacency(st, acc, node_id, th.arg.ord))),
                          entry)
    [] th.pc = "put_adjacency_bulk" ->
         Stepped(st.nodes, st.edges, put_adjacency_bulk(st.adj, th.local),
                 [th EXCEPT !.pc = "returned"],
                 StoreCall("put_adjacency_bulk", DOMAIN th.local, th.local))

(***************************************************************************)
(* State.                                                                  *)
(***************************************************************************)
VARIABLES
  nodes,         \* the nodes partition: node id -> bytes
  edges,         \* the edges partition: edge id -> bytes
  adj,           \* the adjacency partition: node id -> bytes
  last,          \* the last GraphDB call: its name, arguments and outcome
  nops,          \* number of calls made so far on the store (a batch counts per edge)
  writtenNodes,  \* node ids handed to a node write of the store and not deleted since
  writtenEdges,  \* edge ids handed to an edge write of the store and not deleted since
  batch,         \* the edge list E of the bulk / one-by-one comparison
  todo,          \* the edges of E, in some order, not yet put one by one
  seqEdges,      \* edges partition of the second store (one-by-one puts)
  seqAdj,        \* adjacency partition of the second store
  bulkDone,      \* put_edges_bulk(E) has run on the first store
  bfs_pc,        \* position of the bfs call: "idle", "loop", "returned", "raised"
  bfs_start,     \* start_node_id of the bfs call
  bfs_direction, \* direction of the bfs call
  bfs_order,     \* the order list(set) produces during the bfs call
  bfs_queue,     \* queue of bfs
  bfs_visited,   \* visited of bfs
  bfs_result,    \* result of bfs
  threads,       \* the callers inside a GraphDB method, by thread id
  log,           \* the KVStore calls each thread has made, in order
  ndirect        \* number of put_adjacency_list calls made by the caller so far

vars == <<nodes, edges, adj, last, nops, writtenNodes, writtenEdges,
          batch, todo, seqEdges, seqAdj, bulkDone,
          bfs_pc, bfs_start, bfs_direction, bfs_order, bfs_queue, bfs_visited,
          bfs_result, threads, log, ndirect>>

callVars == <<threads, log>>

\* The two callers of the interleavings.
Threads == {1, 2}

\* No thread is inside a method.
calls_idle ==
  /\ threads = [t \in Threads |-> IdleThread]
  /\ log = [t \in Threads |-> <<>>]

bfsVars == <<bfs_pc, bfs_start, bfs_direction, bfs_order, bfs_queue,
             bfs_visited, bfs_result>>

\* No bfs call has been made.
bfs_idle ==
  /\ bfs_pc = "idle"
  /\ bfs_start = ""
  /\ bfs_direction = ""
  /\ bfs_order = <<>>
  /\ bfs_queue = <<>>
  /\ bfs_visited = {}
  /\ bfs_result = <<>>

equivVars == <<batch, todo, seqEdges, seqAdj, bulkDone>>

store == Store(nodes, edges, adj)

seqStore == Store(EmptyDict, seqEdges, seqAdj)

Call(op, id, ns, es, raised) ==
  [op |-> op, id |-> id, nodes |-> ns, edges |-> es, raised |-> raised]

EdgeArgs == {Edge(i, s, t, p) : i \in EdgeIds, s \in NodeIds, t \in NodeIds, p \in Props}

NodeArgs == {Node(i, p) : i \in NodeIds, p \in Props}

RECURSIVE SeqsUpTo(_, _)
SeqsUpTo(S, n) ==
  IF n = 0 THEN {<<>>}
  ELSE LET shorter == SeqsUpTo(S, n - 1)
       IN  shorter \cup {Append(q, x) : q \in {r \in shorter : Len(r) = n - 1}, x \in S}

Batches == SeqsUpTo(EdgeArgs, MaxBatch)

\* The batches of each length.
BatchesOfLen == [n \in 0..MaxBatch |-> {es \in Batches : Len(es) = n}]

Orders == Perms(EdgeIds)

\* The longest list of any adjacency record: a 'source' or 'target' list
\* of a dict, or the record itself.
AdjLen(a) ==
  LET lens == {Len(deserialize(a[nk[1]])[nk[2]]) : nk \in
                 {nk \in (DOMAIN a) \X {"source", "target", "list"} :
                    nk[2] \in DOMAIN deserialize(a[nk[1]])}}
  IN  IF lens = {} THEN 0 ELSE CHOOSE m \in lens : \A l \in lens : l <= m

\* What a call counts for in nops: one per call, one per edge of a batch.
Cost(es) == IF Len(es) > 1 THEN Len(es) ELSE 1

Init ==
  /\ nodes = EmptyDict
  /\ edges = EmptyDict
  /\ adj = EmptyDict
  /\ last = Call("init", "", <<>>, <<>>, FALSE)
  /\ nops = 0
  /\ writtenNodes = {}
  /\ writtenEdges = {}
  /\ batch = <<>>
  /\ todo = <<>>
  /\ seqEdges = EmptyDict
  /\ seqAdj = EmptyDict
  /\ bulkDone = FALSE
  /\ bfs_idle
  /\ calls_idle
  /\ ndirect = 0

\* The store after a call, and the record of the call.
Apply(res, call) ==
  /\ nops + Cost(call.edges) <= MaxOps
  /\ AdjLen(res.adj) <= MaxAdjLen
  /\ nodes' = res.nodes
  /\ edges' = res.edges
  /\ adj' = res.adj
  /\ last' = call
  /\ nops' = nops + Cost(call.edges)

put_node(node) ==
  LET res == GraphDB_put_node(store, node)
  IN  /\ Apply(res, Call("put_node", node.id, <<node>>, <<>>, res.raised))
      /\ writtenNodes' = writtenNodes \cup {node.id}
      /\ UNCHANGED <<writtenEdges, equivVars, bfsVars, callVars, ndirect>>

\* last.nodes holds the node as it was stored before the call, if any.
delete_node(node_id) ==
  LET n == get_node(store, node_id)
      res == GraphDB_delete_node(store, node_id)
  IN  /\ Apply(res, Call("delete_node", node_id,
                         IF n = None THEN <<>> ELSE <<n>>, <<>>, res.raised))
      /\ writtenNodes' = writtenNodes \ {node_id}
      /\ UNCHANGED <<writtenEdges, equivVars, bfsVars, callVars, ndirect>>

put_edge(edge) ==
  LET res == GraphDB_put_edge(store, edge, TRUE)
  IN  /\ Apply(res, Call("put_edge", edge.id, <<>>, <<edge>>, res.raised))
      /\ writtenEdges' = IF Edge_to_dict_raises(edge) THEN writtenEdges
                         ELSE writtenEdges \cup {edge.id}
      /\ UNCHANGED <<writtenNodes, equivVars, bfsVars, callVars, ndirect>>

\* last.edges holds the edge as it was stored before the call, if any.
update_edge(edge_id, new_data, merge_func) ==
  LET e == get_edge(store, edge_id)
      res == GraphDB_update_edge(store, edge_id, new_data, merge_func)
  IN  /\ Apply(res, Call("update_edge", edge_id, <<>>,
                         IF e = None THEN <<>> ELSE <<e>>, res.raised))
      /\ writtenEdges' = IF res.raised THEN writtenEdges
                         ELSE writtenEdges \cup {edge_id}
      /\ UNCHANGED <<writtenNodes, equivVars, bfsVars, callVars, ndirect>>

put_edges_bulk(es, ord) ==
  LET res == GraphDB_put_edges_bulk(store, es, ord)
  IN  /\ nops + Cost(es) <= MaxOps
      /\ Apply(res, Call("put_edges_bulk", "", <<>>, es, res.raised))
      /\ writtenEdges' = IF \E i \in DOMAIN es : Edge_to_dict_raises(es[i])
                         THEN writtenEdges
                         ELSE writtenEdges \cup {es[i].id : i \in DOMAIN es}
      /\ UNCHANGED <<writtenNodes, equivVars, bfsVars, callVars, ndirect>>

\* last.edges holds the edge that was found and deleted, if any.
delete_edge(edge_id) ==
  LET e == get_edge(store, edge_id)
      res == GraphDB_delete_edge(store, edge_id)
  IN  /\ Apply(res, Call("delete_edge", edge_id, <<>>,
                         IF e = None THEN <<>> ELSE <<e>>, res.raised))
      /\ writtenEdges' = writtenEdges \ {edge_id}
      /\ UNCHANGED <<writtenNodes, equivVars, bfsVars, callVars, ndirect>>

\* The values a caller hands to put_adjacency_list: a list of edge ids, as
\* the signature says, or a dict with a list of edge ids under 'source',
\* under 'target', under both or under neither, as delete_edge hands it.
\* These are also the values get_adjacency_list(return_raw=True) returns.
AdjacencyLists ==
  {PyList(ids) : ids \in SeqsUpTo(EdgeIds, MaxAdjLen)} \cup
  UNION {[K -> SeqsUpTo(EdgeIds, MaxAdjLen)] : K \in SUBSET {"source", "target"}}

\* A direct call of the public put_adjacency_list.
put_adjacency_list(node_id, edges_list) ==
  LET res == GraphDB_put_adjacency_list(store, node_id, edges_list)
  IN  /\ ndirect < MaxDirect
      /\ Apply(res, Call("put_adjacency_list", node_id, <<>>, <<>>, res.raised))
      /\ ndirect' = ndirect + 1
      /\ UNCHANGED <<writtenNodes, writtenEdges, equivVars, bfsVars, callVars>>

Next ==
  \/ \E node \in NodeArgs : put_node(node)
  \/ \E node_id \in NodeIds : delete_node(node_id)
  \/ \E edge \in EdgeArgs : put_edge(edge)
  \/ \E edge_id \in EdgeIds, new_data \in Props, merge_func \in MergeFns :
       update_edge(edge_id, new_data, merge_func)
  \/ \E n \in 0..MaxBatch :
       /\ nops + n <= MaxOps
       /\ \E es \in BatchesOfLen[n], ord \in Orders : put_edges_bulk(es, ord)
  \/ \E edge_id \in EdgeIds : delete_edge(edge_id)

Spec == Init /\ [][Next]_vars

(***************************************************************************)
(* The node methods, on a store that put_edge calls give edges and         *)
(* adjacency records.                                                      *)
(***************************************************************************)
\* last.nodes holds the node that update_node returns.
update_node(node_id, new_data, merge_func) ==
  LET res == GraphDB_update_node(store, node_id, new_data, merge_func)
      ret == update_node_merged(store, node_id, new_data, merge_func)
  IN  /\ Apply(res, Call("update_node", node_id, <<ret>>, <<>>, res.raised))
      /\ writtenNodes' = writtenNodes \cup {node_id}
      /\ UNCHANGED <<writtenEdges, equivVars, bfsVars, callVars, ndirect>>

\* The node lists handed to put_nodes.
NodeBatches == SeqsUpTo(NodeArgs, MaxBatch)

put_nodes(ns) ==
  LET res == GraphDB_put_nodes(store, ns)
  IN  /\ Apply(res, Call("put_nodes", "", ns, <<>>, res.raised))
      /\ writtenNodes' = writtenNodes \cup {ns[i].id : i \in DOMAIN ns}
      /\ UNCHANGED <<writtenEdges, equivVars, bfsVars, callVars, ndirect>>

NextNode ==
  \/ \E node \in NodeArgs : put_node(node)
  \/ \E ns \in NodeBatches : put_nodes(ns)
  \/ \E node_id \in NodeIds, new_data \in Props, merge_func \in MergeFns :
       update_node(node_id, new_data, merge_func)
  \/ \E node_id \in NodeIds : delete_node(node_id)
  \/ \E edge \in EdgeArgs : put_edge(edge)

SpecNode == Init /\ [][NextNode]_vars

(***************************************************************************)
(* A bfs call, one iteration of its while loop at a time, on a store built *)
(* by put_edge and delete_edge calls.                                      *)
(***************************************************************************)
\* The edges put before the bfs call: bfs does not read the properties.
BfsEdgeArgs == {e \in EdgeArgs : e.properties = EmptyProps}

\* The order of EdgeNames.
NameOrder == [i \in 1..NumEdges |-> EdgeNames[i]]

\* Only direction 'any' goes through list(set).
BfsOrders(direction) == IF direction = "any" THEN Orders ELSE {NameOrder}

\* The store after a call made before the bfs call, and the record of it.
ApplyBeforeBfs(res, call) ==
  /\ bfs_pc = "idle"
  /\ nops < MaxBuild
  /\ AdjLen(res.adj) <= MaxAdjLen
  /\ nodes' = res.nodes
  /\ edges' = res.edges
  /\ adj' = res.adj
  /\ last' = call
  /\ nops' = nops + 1
  /\ UNCHANGED <<writtenNodes, equivVars, bfsVars, callVars>>

bfs_put_edge(edge) ==
  LET res == GraphDB_put_edge(store, edge, TRUE)
  IN  /\ ApplyBeforeBfs(res, Call("put_edge", edge.id, <<>>, <<edge>>, res.raised))
      /\ writtenEdges' = IF Edge_to_dict_raises(edge) THEN writtenEdges
                         ELSE writtenEdges \cup {edge.id}
      /\ UNCHANGED ndirect

bfs_put_adjacency_list(node_id, edges_list) ==
  LET res == GraphDB_put_adjacency_list(store, node_id, edges_list)
  IN  /\ ndirect < MaxDirect
      /\ ApplyBeforeBfs(res, Call("put_adjacency_list", node_id, <<>>, <<>>, res.raised))
      /\ ndirect' = ndirect + 1
      /\ UNCHANGED writtenEdges

bfs_delete_edge(edge_id) ==
  LET e == get_edge(store, edge_id)
      res == GraphDB_delete_edge(store, edge_id)
  IN  /\ ApplyBeforeBfs(res, Call("delete_edge", edge_id, <<>>,
                                  IF e = None THEN <<>> ELSE <<e>>, res.raised))
      /\ writtenEdges' = writtenEdges \ {edge_id}
      /\ UNCHANGED ndirect

\* bfs up to the while loop.
bfs_call(start_node_id, direction, ord) ==
  /\ bfs_pc = "idle"
  /\ bfs_pc' = "loop"
  /\ bfs_start' = start_node_id
  /\ bfs_direction' = direction
  /\ bfs_order' = ord
  /\ bfs_visited' = {}
  /\ bfs_queue' = <<start_node_id>>
  /\ bfs_result' = <<>>
  /\ UNCHANGED <<nodes, edges, adj, last, nops, writtenNodes, writtenEdges, equivVars, callVars, ndirect>>

\* One iteration of the while loop.
bfs_iterate ==
  LET after == bfs_step(store, bfs_direction, bfs_order, bfs_queue, bfs_visited,
                        bfs_result)
  IN  /\ bfs_pc = "loop"
      /\ bfs_queue # <<>>
      /\ bfs_pc' = IF bfs_step_raises(store, bfs_queue, bfs_visited)
                   THEN "raised" ELSE "loop"
      /\ bfs_queue' = after.queue
      /\ bfs_visited' = after.visited
      /\ bfs_result' = after.result
      /\ UNCHANGED <<nodes, edges, adj, last, nops, writtenNodes, writtenEdges,
                     equivVars, bfs_start, bfs_direction, bfs_order, callVars, ndirect>>

\* The queue is empty: return result.
bfs_return ==
  /\ bfs_pc = "loop"
  /\ bfs_queue = <<>>
  /\ bfs_pc' = "returned"
  /\ UNCHANGED <<nodes, edges, adj, last, nops, writtenNodes, writtenEdges,
                 equivVars, bfs_start, bfs_direction, bfs_order, bfs_queue,
                 bfs_visited, bfs_result, callVars, ndirect>>

NextBfs ==
  \/ \E edge \in BfsEdgeArgs : bfs_put_edge(edge)
  \/ \E edge_id \in EdgeIds : bfs_delete_edge(edge_id)
  \/ \E start_node_id \in NodeIds, direction \in {"forward", "backward", "any"} :
       \E ord \in BfsOrders(direction) : bfs_call(start_node_id, direction, ord)
  \/ bfs_iterate
  \/ bfs_return

SpecBfs == Init /\ [][NextBfs]_vars

\* The same, on a store that put_adjacency_list calls have written as well:
\* its records are dicts or lists, and bfs raises at a node with a list.
NextAdj ==
  \/ NextBfs
  \/ \E node_id \in NodeIds, edges_list \in AdjacencyLists :
       bfs_put_adjacency_list(node_id, edges_list)

SpecAdj == Init /\ [][NextAdj]_vars

\* bfs runs in the caller's thread: once called, the loop keeps iterating
\* and the method returns when the loop ends.
SpecBfsLive == SpecBfs /\ WF_vars(bfs_iterate) /\ WF_vars(bfs_return)

(***************************************************************************)
(* put_edge with either value of update_adjacency.                         *)
(***************************************************************************)
put_edge_flag(edge, update_adjacency) ==
  LET res == GraphDB_put_edge(store, edge, update_adjacency)
  IN  /\ Apply(res, Call(IF update_adjacency THEN "put_edge" ELSE "put_edge_no_adjacency",
                         edge.id, <<>>, <<edge>>, res.raised))
      /\ writtenEdges' = IF Edge_to_dict_raises(edge) THEN writtenEdges
                         ELSE writtenEdges \cup {edge.id}
      /\ UNCHANGED <<writtenNodes, equivVars, bfsVars, callVars, ndirect>>

NextFlag == \E edge \in EdgeArgs, update_adjacency \in BOOLEAN :
              put_edge_flag(edge, update_adjacency)

SpecFlag == Init /\ [][NextFlag]_vars

(***************************************************************************)
(* A graph of up to OrderNodes nodes built by put_edge calls with the edge *)
(* ids e1, e2, ... in this order.                                          *)
(***************************************************************************)
OrderNodeIds == {NodeNames[i] : i \in 1..OrderNodes}

OrderEdgeIds == {EdgeNames[i] : i \in 1..OrderEdges}

OrderEdgeArgs == {Edge(i, s, t, EmptyProps) : i \in OrderEdgeIds, s \in OrderNodeIds,
                                               t \in OrderNodeIds}

\* The orders of list(set) over these edge ids.
OrderOrders == Perms(OrderEdgeIds)

put_order_edge(edge) ==
  /\ nops < OrderEdges
  /\ edge.id = EdgeNames[nops + 1]
  /\ put_edge(edge)

NextOrder == \E edge \in OrderEdgeArgs : put_order_edge(edge)

SpecOrder == Init /\ [][NextOrder]_vars

(***************************************************************************)
(* Threads inside GraphDB methods, interleaved KVStore call by KVStore     *)
(* call, on a store built by completed calls.                              *)
(***************************************************************************)
Running(th) == th.pc \notin {"idle", "returned", "raised", "crashed"}

\* The threads other than t that read key with the call read, have not
\* written since and are still inside their method.
StaleReaders(t, read, key) ==
  {u \in Threads \ {t} :
     /\ Running(threads[u])
     /\ \E i \in DOMAIN log[u] :
          /\ log[u][i].call = read
          /\ log[u][i].key = key
          /\ \A j \in (i + 1)..Len(log[u]) : log[u][j].call = read}

\* A thread enters a method: a call like any other for the budget.
Enter(t, th) ==
  /\ threads[t] = IdleThread
  /\ nops < MaxOps
  /\ nops' = nops + 1
  /\ threads' = [threads EXCEPT ![t] = th]
  /\ UNCHANGED <<nodes, edges, adj, last, log, writtenNodes, writtenEdges,
                 equivVars, bfsVars, ndirect>>

\* A thread makes its next KVStore call: the store takes it, the log gets
\* it, and the ids written and not deleted follow it.
Step(t, res, over) ==
  /\ nodes' = res.nodes
  /\ edges' = res.edges
  /\ adj' = res.adj
  /\ threads' = [threads EXCEPT ![t] = res.th]
  /\ log' = [log EXCEPT ![t] =
               IF res.entry.call = "none" THEN @
               ELSE Append(@, [call |-> res.entry.call, key |-> res.entry.key,
                               value |-> res.entry.value, over |-> over])]
  /\ writtenNodes' = IF res.entry.call = "put_node"
                     THEN writtenNodes \cup {res.entry.key} ELSE writtenNodes
  /\ writtenEdges' = CASE res.entry.call = "put_edge" -> writtenEdges \cup {res.entry.key}
                       [] res.entry.call = "put_edges_bulk" -> writtenEdges \cup res.entry.key
                       [] res.entry.call = "delete_edge" -> writtenEdges \ {res.entry.key}
                       [] OTHER -> writtenEdges
  /\ UNCHANGED <<last, nops, equivVars, bfsVars, ndirect>>

\* The caller of delete_edge(edge_id) before its first KVStore call.
delete_edge_thread(edge_id) ==
  Thread("delete_edge", "get_edge", [edge_id |-> edge_id], <<>>, <<>>)

delete_edge_call(t, edge_id) == Enter(t, delete_edge_thread(edge_id))

delete_edge_step(t) ==
  /\ threads[t].op = "delete_edge"
  /\ Running(threads[t])
  /\ Step(t, delete_edge_store_call(store, threads[t]), {})

update_node_call(t, node_id, new_data, merge_func) ==
  Enter(t, Thread("update_node", "get_node",
                  [node_id |-> node_id, merge_func |-> merge_func, new_data |-> new_data],
                  <<>>, <<>>))

\* The put_node of a thread is marked with the threads that read the node
\* before it and have not written yet.
update_node_step(t) ==
  /\ threads[t].op = "update_node"
  /\ Running(threads[t])
  /\ Step(t, update_node_store_call(store, threads[t]),
          IF threads[t].pc = "put_node"
          THEN StaleReaders(t, "get_node", threads[t].arg.node_id) ELSE {})

put_edge_call(t, edge, update_adjacency) ==
  Enter(t, Thread("put_edge", "put_edge",
                  [edge |-> edge, update_adjacency |-> update_adjacency], <<>>, <<>>))

\* The put_adjacency of a thread is marked with the threads that read the
\* record of the node before it and have not written yet.
put_edge_step(t) ==
  /\ threads[t].op = "put_edge"
  /\ Running(threads[t])
  /\ Step(t, put_edge_store_call(store, threads[t]),
          IF threads[t].pc = "put_adjacency"
          THEN StaleReaders(t, "get_adjacency", Head(threads[t].todo)[2]) ELSE {})

put_edges_bulk_call(t, es, ord) ==
  Enter(t, Thread("put_edges_bulk", "put_edges_bulk", [ord |-> ord, edges |-> es],
                  <<>>, <<>>))

put_edges_bulk_step(t) ==
  /\ threads[t].op = "put_edges_bulk"
  /\ Running(threads[t])
  /\ Step(t, put_edges_bulk_store_call(store, threads[t]), {})

\* The process of a thread dies between two of its KVStore calls.
crash(t) ==
  /\ Running(threads[t])
  /\ log[t] # <<>>
  /\ threads' = [threads EXCEPT ![t].pc = "crashed"]
  /\ UNCHANGED <<nodes, edges, adj, last, nops, log, writtenNodes, writtenEdges,
                 equivVars, bfsVars, ndirect>>

\* A completed call made before any thread enters a method.
AllIdle == \A t \in Threads : threads[t] = IdleThread

\* delete_edge calls, possibly two at a time and possibly crashing, on a
\* store built by put_edge calls with and without adjacency update and by
\* put_adjacency_list calls, which store lists as well as dicts.
before_put_edge(edge, update_adjacency) ==
  AllIdle /\ put_edge_flag(edge, update_adjacency)

before_put_adjacency_list(node_id, edges_list) ==
  AllIdle /\ put_adjacency_list(node_id, edges_list)

NextDelete ==
  \/ \E edge \in BfsEdgeArgs, update_adjacency \in BOOLEAN :
       before_put_edge(edge, update_adjacency)
  \/ \E node_id \in NodeIds, edges_list \in AdjacencyLists :
       before_put_adjacency_list(node_id, edges_list)
  \/ \E t \in Threads, edge_id \in EdgeIds : delete_edge_call(t, edge_id)
  \/ \E t \in Threads : delete_edge_step(t)
  \/ \E t \in Threads : crash(t)

SpecDelete == Init /\ [][NextDelete]_vars

\* update_node calls, possibly two at a time, on a store built by put_node
\* calls.  The two callers bring different keys.
RaceData == {{<<"w", 1>>}, {<<"v", 1>>}}

before_put_node(node) == AllIdle /\ put_node(node)

NextRace ==
  \/ \E node \in NodeArgs : before_put_node(node)
  \/ \E t \in Threads, node_id \in NodeIds, new_data \in RaceData, merge_func \in MergeFns :
       update_node_call(t, node_id, new_data, merge_func)
  \/ \E t \in Threads : update_node_step(t)

SpecRace == Init /\ [][NextRace]_vars

\* put_edges_bulk in thread 1 and put_edge in thread 2, on a store built by
\* put_edge calls.
BulkBatches == SeqsUpTo(BfsEdgeArgs, MaxBatch)

NextBulk ==
  \/ \E edge \in BfsEdgeArgs : before_put_edge(edge, TRUE)
  \/ \E es \in BulkBatches, ord \in Orders : put_edges_bulk_call(1, es, ord)
  \/ put_edges_bulk_step(1)
  \/ \E edge \in BfsEdgeArgs : put_edge_call(2, edge, TRUE)
  \/ put_edge_step(2)

SpecBulk == Init /\ [][NextBulk]_vars

(***************************************************************************)
(* A store built by put_edge calls only, each with an edge id not used     *)
(* before.                                                                 *)
(***************************************************************************)
put_fresh_edge(edge) == edge.id \notin DOMAIN edges /\ put_edge(edge)

NextPut == \E edge \in EdgeArgs : put_fresh_edge(edge)

SpecPut == Init /\ [][NextPut]_vars

(***************************************************************************)
(* Two stores, both without adjacency records: put_edges_bulk(E) runs on   *)
(* the first, put_edge on each edge of E, in some order, on the second.    *)
(***************************************************************************)
DistinctIds(es) == \A i, j \in DOMAIN es : i # j => es[i].id # es[j].id

\* The edge lists E: adjacency does not depend on the properties.
EquivBatches ==
  {es \in SeqsUpTo({e \in EdgeArgs : e.properties = EmptyProps}, MaxBatch) :
     DistinctIds(es)}

\* The orderings of the list es.
OrderingsOf(es) == {[i \in DOMAIN es |-> es[f[i]]] : f \in Perms(DOMAIN es)}

InitEquiv ==
  /\ nodes = EmptyDict
  /\ edges = EmptyDict
  /\ adj = EmptyDict
  /\ last = Call("init", "", <<>>, <<>>, FALSE)
  /\ nops = 0
  /\ writtenNodes = {}
  /\ writtenEdges = {}
  /\ batch \in EquivBatches
  /\ todo \in OrderingsOf(batch)
  /\ seqEdges = EmptyDict
  /\ seqAdj = EmptyDict
  /\ bulkDone = FALSE
  /\ bfs_idle
  /\ calls_idle
  /\ ndirect = 0

\* put_edge of the next edge of the ordering, on the second store.
equiv_put_edge ==
  LET res == GraphDB_put_edge(seqStore, Head(todo), TRUE)
  IN  /\ todo # <<>>
      /\ todo' = Tail(todo)
      /\ seqEdges' = res.edges
      /\ seqAdj' = res.adj
      /\ UNCHANGED <<nodes, edges, adj, last, nops, writtenNodes, writtenEdges,
                     batch, bulkDone, bfsVars, callVars, ndirect>>

\* put_edges_bulk(E) on the first store, once the second store is built.
equiv_bulk(ord) ==
  LET res == GraphDB_put_edges_bulk(store, batch, ord)
  IN  /\ todo = <<>>
      /\ ~bulkDone
      /\ bulkDone' = TRUE
      /\ edges' = res.edges
      /\ adj' = res.adj
      /\ last' = Call("put_edges_bulk", "", <<>>, batch, res.raised)
      /\ nops' = nops + Cost(batch)
      /\ writtenEdges' = IF \E i \in DOMAIN batch : Edge_to_dict_raises(batch[i])
                         THEN writtenEdges
                         ELSE writtenEdges \cup {batch[i].id : i \in DOMAIN batch}
      /\ UNCHANGED <<nodes, writtenNodes,
                     batch, todo, seqEdges, seqAdj, bfsVars, callVars, ndirect>>

NextEquiv ==
  \/ equiv_put_edge
  \/ \E ord \in Orders : equiv_bulk(ord)

SpecEquiv == InitEquiv /\ [][NextEquiv]_vars

(***************************************************************************)
(* Derived views of the stored graph used by the properties.               *)
(***************************************************************************)
StoredEdges(st) == {get_edge(st, id) : id \in DOMAIN st.edges}

\* The ids in the 'source' (outgoing) or 'target' (incoming) list of a node.
RoleIds(st, node_id, role) == ToSet(DictGet(get_adjacency_raw(st, node_id), role, <<>>))

NoRepeats(s) == \A i, j \in DOMAIN s : i # j => s[i] # s[j]

RECURSIVE ReachSet(_, _)
ReachSet(S, Rel) ==
  LET T == S \cup {p[2] : p \in {q \in Rel : q[1] \in S}}
  IN  IF T = S THEN S ELSE ReachSet(T, Rel)

ForwardRel(st) == {<<e.source, e.target>> : e \in StoredEdges(st)}

BackwardRel(st) == {<<e.target, e.source>> : e \in StoredEdges(st)}

\* C1: every stored edge has its id in the outgoing ('source') list of the
\* adjacency record of its source and in the incoming ('target') list of the
\* record of its target, after any sequence of completed or failed calls.
C1_IndexInvariant ==
  \A e \in StoredEdges(store) :
    /\ e.id \in RoleIds(store, e.source, "source")
    /\ e.id \in RoleIds(store, e.target, "target")

\* C2: after a completed put_edge or put_edges_bulk, every stored edge it
\* wrote with source # target is in the 'forward' list of its source, in the
\* 'backward' list of its target and in the 'any' list of both.
C2_AdjacencySymmetry ==
  (last.op \in {"put_edge", "put_edges_bulk"} /\ ~last.raised) =>
    \A i \in DOMAIN last.edges : \A ord \in Orders :
      LET e == last.edges[i]
      IN  (e \in StoredEdges(store) /\ e.source # e.target) =>
            /\ e.id \in ToSet(get_adjacency_list(store, e.source, "forward", ord))
            /\ e.id \in ToSet(get_adjacency_list(store, e.target, "backward", ord))
            /\ e.id \in ToSet(get_adjacency_list(store, e.source, "any", ord))
            /\ e.id \in ToSet(get_adjacency_list(store, e.target, "any", ord))

\* C3: after delete_edge(id) has completed on a stored edge, the id is in
\* neither list of the adjacency record of the edge's source or target.
C3_DeleteRemovesFromAdjacency ==
  (last.op = "delete_edge" /\ ~last.raised /\ last.edges # <<>>) =>
    LET e == last.edges[1]
    IN  \A n \in {e.source, e.target} : \A role \in {"source", "target"} :
          e.id \notin RoleIds(store, n, role)

\* C4: put_edges_bulk(E) on a store where an endpoint of E already has an
\* adjacency record completes without error, keeps every id the affected
\* records held and adds each edge of E to the 'any' list of its endpoints.
C4_BulkMergesExisting ==
  [][(/\ last'.op = "put_edges_bulk"
      /\ nops' # nops
      /\ \E i \in DOMAIN last'.edges :
           {last'.edges[i].source, last'.edges[i].target} \cap DOMAIN adj # {})
     =>
     (/\ ~last'.raised
      /\ \A n \in NodeIds : \A role \in {"source", "target"} :
           RoleIds(store, n, role) \subseteq RoleIds(store', n, role)
      /\ \A i \in DOMAIN last'.edges : \A ord \in Orders :
           LET e == last'.edges[i]
           IN  /\ e.id \in ToSet(get_adjacency_list(store', e.source, "any", ord))
               /\ e.id \in ToSet(get_adjacency_list(store', e.target, "any", ord)))]_vars

\* C5: from stores without adjacency records, once put_edges_bulk(E) has run
\* on one and put_edge on every edge of E (distinct ids, any order) on the
\* other, every node has the same set of ids in each role in both.
C5_BulkSequentialEquivalence ==
  (bulkDone /\ todo = <<>>) =>
    \A n \in NodeIds : \A role \in {"source", "target"} :
      RoleIds(store, n, role) = RoleIds(seqStore, n, role)

C5_Witness ==
  /\ bulkDone
  /\ todo = <<>>
  /\ ~last.raised
  /\ Len(batch) = 2
  /\ batch[1].source = batch[1].target
  /\ batch[2].source = batch[1].source
  /\ batch[2].target # batch[2].source

\* C6: bfs(start, 'any') returns no node twice, and returns exactly the nodes
\* connected to start by stored edges taken in either direction.
C6_BfsCoverageAny ==
  \A start \in NodeIds : \A ord \in Orders :
    LET r == bfs(store, start, "any", ord)
    IN  /\ NoRepeats(r)
        /\ ToSet(r) = ReachSet({start}, ForwardRel(store) \cup BackwardRel(store))

\* C7: in a store built by put_edge calls with distinct edge ids,
\* bfs(start, 'forward') returns exactly the nodes reachable from start along
\* edges from source to target, and bfs(start, 'backward') exactly the nodes
\* from which start is reachable.
C7_DirectedBfs ==
  \A start \in NodeIds : \A ord \in Orders :
    /\ ToSet(bfs(store, start, "forward", ord)) = ReachSet({start}, ForwardRel(store))
    /\ ToSet(bfs(store, start, "backward", ord)) = ReachSet({start}, BackwardRel(store))

\* C8: after put_edge(e) with e.source = e.target = n, e.id is in the
\* 'forward' and in the 'backward' list of n, and exactly once in 'any'.
C8_SelfLoop ==
  (last.op = "put_edge" /\ ~last.raised /\ last.edges[1].source = last.edges[1].target) =>
    LET e == last.edges[1]
        n == e.source
    IN  \A ord \in Orders :
          /\ e.id \in ToSet(get_adjacency_list(store, n, "forward", ord))
          /\ e.id \in ToSet(get_adjacency_list(store, n, "backward", ord))
          /\ Count(get_adjacency_list(store, n, "any", ord), e.id) = 1

\* A self-loop was put on a node whose record already listed the same id.
C8_Witness ==
  /\ last.op = "put_edge"
  /\ ~last.raised
  /\ last.edges[1].source = last.edges[1].target
  /\ Len(DictGet(get_adjacency_raw(store, last.edges[1].source), "source", <<>>)) >= 2
  /\ Len(DictGet(get_adjacency_raw(store, last.edges[1].source), "target", <<>>)) >= 2

\* C9: after put_node(x), get_node(x.id) has the id and properties of x; after
\* put_edge(e), get_edge(e.id) has the id, source, target and properties of
\* e; the most recent put of an id is the one returned.
C9_RoundTrip ==
  /\ (last.op = "put_node" /\ ~last.raised) =>
       LET x == last.nodes[1]
           got == get_node(store, x.id)
       IN  got # None /\ got.id = x.id /\ got.properties = x.properties
  /\ (last.op = "put_edge" /\ ~last.raised) =>
       LET e == last.edges[1]
           got == get_edge(store, e.id)
       IN  /\ got # None
           /\ got.id = e.id
           /\ got.source = e.source
           /\ got.target = e.target
           /\ got.properties = e.properties

\* An edge id was put again with another source and other properties.
C9_Witness ==
  /\ last.op = "put_edge"
  /\ ~last.raised
  /\ last.edges[1].properties # EmptyProps
  /\ \E n \in NodeIds :
       /\ n # last.edges[1].source
       /\ last.edges[1].id \in RoleIds(store, n, "source")

\* C10: get_node(id) / get_edge(id) is None exactly when the id was never
\* written or was deleted and not written again since.
C10_GetAbsent ==
  /\ \A id \in NodeIds : (get_node(store, id) = None) <=> (id \notin writtenNodes)
  /\ \A id \in EdgeIds : (get_edge(store, id) = None) <=> (id \notin writtenEdges)

\* A stored edge has just been deleted, while another id is still stored.
C10_Witness ==
  /\ last.op = "delete_edge"
  /\ last.edges # <<>>
  /\ get_edge(store, last.id) = None
  /\ \E id \in EdgeIds : get_edge(store, id) # None
  /\ \E id \in NodeIds : get_node(store, id) = None

Directions == {"forward", "backward", "any"}

\* The id lists handed to get_nodes.
IdLists == SeqsUpTo(NodeIds, MaxIds)

\* The ids an adjacency record holds under one key.
RecordIds(rec, role) == IF role \in DOMAIN rec THEN ToSet(rec[role]) ELSE {}

\* The edge ids a stored adjacency record (or None) holds: the elements of
\* a list, the ids under either key of a dict.
IdsOfRaw(raw) ==
  IF raw = None THEN {}
  ELSE IF is_list(deserialize(raw)) THEN ToSet(deserialize(raw).list)
  ELSE RecordIds(deserialize(raw), "source") \cup RecordIds(deserialize(raw), "target")

\* The edge ids the adjacency record of node n holds that have no edge record.
DanglingIds(st, n) ==
  {x \in IdsOfRaw(store_get(st.adj, n)) : x \notin DOMAIN st.edges}

\* C11: update_node(id, data, merge_fn) never raises; it stores and returns
\* the node with that id whose properties are merge_fn({}, data) when no node
\* was stored under the id, and merge_fn(old_properties, data) when one was.
C11_UpdateNodeCreatesOnMissing ==
  [][\A node_id \in NodeIds, new_data \in Props, merge_func \in MergeFns :
       update_node(node_id, new_data, merge_func) =>
         LET old == get_node(store, node_id)
             old_properties == IF old = None THEN EmptyProps ELSE old.properties
             expected == [id |-> node_id,
                          properties |-> Merge(merge_func, old_properties, new_data)]
         IN  /\ ~last'.raised
             /\ last'.nodes = <<expected>>
             /\ get_node(store', node_id) = expected]_vars

\* update_node was the first call on the empty store, so no node was stored
\* under its id, and the node it stored and returned has the new data.
C11_Witness ==
  /\ last.op = "update_node"
  /\ nops = 1
  /\ last.nodes[1].properties # EmptyProps
  /\ get_node(store, last.id) = last.nodes[1]

\* C12: update_edge(id, data, merge_fn) on an id with no stored edge does not
\* raise, and afterwards get_edge(id) returns an edge with that id and
\* properties merge_fn({}, data).
C12_UpdateEdgeCreatesOnMissing ==
  [][\A edge_id \in EdgeIds, new_data \in Props, merge_func \in MergeFns :
       (update_edge(edge_id, new_data, merge_func) /\ get_edge(store, edge_id) = None) =>
         /\ ~last'.raised
         /\ get_edge(store', edge_id) # None
         /\ get_edge(store', edge_id).id = edge_id
         /\ get_edge(store', edge_id).properties = Merge(merge_func, EmptyProps, new_data)]_vars

\* C13: put_node, put_nodes, update_node and delete_node leave every edge
\* record and every adjacency record as they were: get_edge and
\* get_adjacency_list return the same for every id and direction.
C13_NodeOpsFrame ==
  [][(last'.op \in {"put_node", "put_nodes", "update_node", "delete_node"}
        /\ nops' = nops + 1) =>
       /\ edges' = edges
       /\ adj' = adj
       /\ \A edge_id \in EdgeIds : get_edge(store', edge_id) = get_edge(store, edge_id)
       /\ \A n \in NodeIds, d \in Directions, ord \in Orders :
            get_adjacency_list(store', n, d, ord) = get_adjacency_list(store, n, d, ord)]_vars

\* delete_node deleted a stored node that is an endpoint of a stored edge and
\* has an adjacency record; the edge and the record are still there.
C13_Witness ==
  /\ last.op = "delete_node"
  /\ last.nodes # <<>>
  /\ last.id \notin DOMAIN nodes
  /\ last.id \in DOMAIN adj
  /\ \E e \in StoredEdges(store) :
       /\ last.id \in {e.source, e.target}
       /\ \E ord \in Orders : e.id \in ToSet(get_adjacency_list(store, last.id, "any", ord))

\* C14: get_nodes(ids) has the length of ids, and slot i is what
\* get_node(ids[i]) returns: the stored node with id ids[i], or None.
C14_GetNodesAligned ==
  \A node_ids \in IdLists :
    LET got == get_nodes(store, node_ids)
    IN  /\ Len(got) = Len(node_ids)
        /\ \A i \in 1..Len(node_ids) :
             /\ got[i] = get_node(store, node_ids[i])
             /\ node_ids[i] \in DOMAIN nodes => (got[i] # None /\ got[i].id = node_ids[i])
             /\ node_ids[i] \notin DOMAIN nodes => got[i] = None

\* get_nodes on a stored id, an id that is not stored and the stored id again.
C14_Witness ==
  \E a, b \in NodeIds :
    /\ a \in DOMAIN nodes
    /\ b \notin DOMAIN nodes
    /\ get_nodes(store, <<a, b, a>>) = <<get_node(store, a), None, get_node(store, a)>>
    /\ get_node(store, a).id = a

\* C15: get_adjacency_list on a node without adjacency record returns the
\* empty list for every direction; on a node whose record holds ids as
\* outgoing ('source') only, 'backward' (incoming) returns the empty list,
\* and on one whose record holds ids as incoming ('target') only, 'forward'
\* (outgoing) returns the empty list.
C15_AbsentRecordIsEmpty ==
  \A n \in NodeIds, ord \in Orders :
    /\ n \notin DOMAIN adj =>
         \A d \in Directions : get_adjacency_list(store, n, d, ord) = <<>>
    /\ n \in DOMAIN adj =>
         LET rec == deserialize(adj[n])
             out == RecordIds(rec, "source")
             inc == RecordIds(rec, "target")
         IN  /\ (out # {} /\ inc = {}) =>
                  get_adjacency_list(store, n, "backward", ord) = <<>>
             /\ (inc # {} /\ out = {}) =>
                  get_adjacency_list(store, n, "forward", ord) = <<>>

\* C16: no adjacency record lists an edge id twice under one key, and
\* get_adjacency_list(n, 'forward') and (n, 'backward') return no id twice.
C16_AdjacencySetSemantics ==
  \A n \in NodeIds, ord \in Orders :
    /\ n \in DOMAIN adj =>
         \A role \in DOMAIN deserialize(adj[n]) : NoRepeats(deserialize(adj[n])[role])
    /\ NoRepeats(get_adjacency_list(store, n, "forward", ord))
    /\ NoRepeats(get_adjacency_list(store, n, "backward", ord))

\* C17: every adjacency record that is stored holds at least one edge id.
C17_NoEmptyRecord ==
  \A n \in DOMAIN adj :
    \E role \in DOMAIN deserialize(adj[n]) : deserialize(adj[n])[role] # <<>>

\* C18: update_edge on a stored edge keeps its id, source and target, sets
\* its properties to merge_fn(old_properties, new_data), and leaves the set
\* of ids get_adjacency_list returns the same for every node and direction.
C18_UpdateEdgeFrame ==
  [][\A edge_id \in EdgeIds, new_data \in Props, merge_func \in MergeFns :
       (update_edge(edge_id, new_data, merge_func) /\ get_edge(store, edge_id) # None) =>
         LET old == get_edge(store, edge_id)
         IN  /\ get_edge(store', edge_id) =
                  [old EXCEPT !.properties = Merge(merge_func, old.properties, new_data)]
             /\ \A n \in NodeIds, d \in Directions, ord \in Orders :
                  ToSet(get_adjacency_list(store', n, d, ord)) =
                    ToSet(get_adjacency_list(store, n, d, ord))]_vars

\* C19: once bfs is in its while loop the queue empties and the call
\* returns, whatever the store holds (cycles, self-loops, parallel edges,
\* entries without edge record); result never holds a node id twice, its
\* first element is the start node, and at the return the queue is empty.
C19_BfsTerminates ==
  /\ (bfs_pc = "loop") ~> (bfs_pc = "returned")
  /\ [](NoRepeats(bfs_result))
  /\ [](bfs_result # <<>> => bfs_result[1] = bfs_start)
  /\ [](bfs_pc = "returned" => (bfs_queue = <<>> /\ bfs_result # <<>>))

\* bfs with direction 'any' returned both nodes of a two-node cycle: the
\* second node was in the queue once per edge of the cycle.
C19_Witness ==
  /\ bfs_pc = "returned"
  /\ bfs_direction = "any"
  /\ Len(bfs_result) = 2
  /\ \E e, f \in StoredEdges(store) :
       e.source # e.target /\ f.source = e.target /\ f.target = e.source

\* C20: an iteration of the bfs loop on an unvisited node whose adjacency
\* record holds an edge id without edge record does not raise; it appends to
\* the queue the unvisited other endpoints of the adjacency entries that have
\* an edge record, in list order, and nothing for an entry without edge
\* record.
C20_BfsSkipsDangling ==
  [][(/\ bfs_iterate
      /\ Head(bfs_queue) \notin bfs_visited
      /\ DanglingIds(store, Head(bfs_queue)) # {}) =>
       /\ bfs_pc' # "raised"
       /\ LET current == Head(bfs_queue)
              edges_list == get_adjacency_list(store, current, bfs_direction, bfs_order)
              stored == SelectSeq(edges_list, LAMBDA e_id : e_id \in DOMAIN edges)
              other(e_id) ==
                LET e == get_edge(store, e_id)
                IN  IF e.source = current THEN e.target ELSE e.source
              neighbours == [i \in 1..Len(stored) |-> other(stored[i])]
          IN  bfs_queue' = Tail(bfs_queue) \o
                SelectSeq(neighbours, LAMBDA n : n \notin bfs_visited \cup {current})]_vars

\* The number of hops from the set S (k hops from the start) to n along Rel.
RECURSIVE HopsFrom(_, _, _, _)
HopsFrom(S, Rel, n, k) ==
  LET T == S \cup {p[2] : p \in {q \in Rel : q[1] \in S}}
  IN  IF n \in S THEN k
      ELSE IF T = S THEN k + Cardinality(S) + 1
      ELSE HopsFrom(T, Rel, n, k + 1)

\* The hop distance from start to n over the stored edges, either way.
Hops(st, start, n) == HopsFrom({start}, ForwardRel(st) \cup BackwardRel(st), n, 0)

\* C21: in a store built by put_edge calls with distinct edge ids, the hop
\* distance from start is non-decreasing along the list bfs(start, 'any')
\* returns.
C21_BfsOrder ==
  \A start \in OrderNodeIds, ord \in OrderOrders :
    LET r == bfs(store, start, "any", ord)
    IN  \A i, j \in DOMAIN r :
          i < j => Hops(store, start, r[i]) <= Hops(store, start, r[j])

\* bfs returns the start, its two neighbours and then a node two hops away.
C21_Witness ==
  \E start \in OrderNodeIds, ord \in OrderOrders :
    LET r == bfs(store, start, "any", ord)
    IN  /\ Len(r) = 4
        /\ Hops(store, start, r[2]) = 1
        /\ Hops(store, start, r[3]) = 1
        /\ Hops(store, start, r[4]) = 2

\* C23: delete_edge(id) on an id without edge record raises nothing and
\* leaves the three partitions as they were.
C23_DeleteAbsentNoOp ==
  [][\A edge_id \in EdgeIds :
       (bfs_delete_edge(edge_id) /\ get_edge(store, edge_id) = None) =>
         /\ ~last'.raised
         /\ nodes' = nodes
         /\ edges' = edges
         /\ adj' = adj]_vars

\* delete_edge ran on an id without edge record that an adjacency record
\* still lists.
C23_Witness ==
  /\ last.op = "delete_edge"
  /\ last.edges = <<>>
  /\ last.id \notin DOMAIN edges
  /\ \E n \in DOMAIN adj : last.id \in IdsOfRaw(adj[n])

\* C25: put_edge(edge, update_adjacency) stores the edge record; with
\* update_adjacency = False the adjacency partition is unchanged, with True
\* the records of all nodes but edge.source and edge.target are unchanged.
C25_PutEdgeAdjacencyFlag ==
  [][\A edge \in EdgeArgs, update_adjacency \in BOOLEAN :
       put_edge_flag(edge, update_adjacency) =>
         /\ get_edge(store', edge.id) = edge
         /\ nodes' = nodes
         /\ ~update_adjacency => adj' = adj
         /\ update_adjacency =>
              \A n \in NodeIds \ {edge.source, edge.target} :
                store_get(adj', n) = store_get(adj, n)]_vars

\* put_edge(edge, update_adjacency = False) stored an edge whose id is in no
\* adjacency record, in a store that has adjacency records.
C25_Witness ==
  /\ last.op = "put_edge_no_adjacency"
  /\ get_edge(store, last.id) = last.edges[1]
  /\ adj # EmptyDict
  /\ \A n \in DOMAIN adj, role \in {"source", "target"} :
       last.id \notin RecordIds(deserialize(adj[n]), role)

\* C30: an edge id in the 'source' list of node n whose edge record is stored
\* belongs to an edge with source n, and an id in the 'target' list of n to an
\* edge with target n.
C30_IndexMatchesEndpoints ==
  \A n \in DOMAIN adj :
    /\ \A x \in RecordIds(deserialize(adj[n]), "source") :
         get_edge(store, x) # None => get_edge(store, x).source = n
    /\ \A x \in RecordIds(deserialize(adj[n]), "target") :
         get_edge(store, x) # None => get_edge(store, x).target = n

\* The positions of the calls named call in the call sequence L.
CallsOf(L, call) == {i \in DOMAIN L : L[i].call = call}

\* C22: a delete_edge that found the edge deletes the edge record at most
\* once and as its last KVStore call, after every adjacency call; when it
\* returns it has deleted the record once and has read the adjacency record
\* of each distinct endpoint once (one for a self-loop, two otherwise).
C22_DeleteOrdering ==
  \A t \in Threads :
    (threads[t].op = "delete_edge" /\ log[t] # <<>> /\ log[t][1].value # None) =>
      LET L == log[t]
          e == Edge_from_dict(deserialize(L[1].value))
          dels == CallsOf(L, "delete_edge")
          reads == CallsOf(L, "get_adjacency")
      IN  /\ Cardinality(dels) <= 1
          /\ \A i \in dels : i = Len(L) /\ threads[t].pc = "returned"
          /\ threads[t].pc = "returned" =>
               /\ Cardinality(dels) = 1
               /\ Cardinality(reads) = Cardinality({e.source, e.target})
               /\ {L[i].key : i \in reads} = {e.source, e.target}
               /\ \A i \in CallsOf(L, "put_adjacency") : L[i].key \in {e.source, e.target}

\* A delete_edge returned after removing the id from the records of two
\* distinct endpoints and then deleting the edge record.
C22_Witness ==
  \E t \in Threads :
    /\ threads[t].op = "delete_edge"
    /\ threads[t].pc = "returned"
    /\ Cardinality(CallsOf(log[t], "put_adjacency")) = 2
    /\ log[t][Len(log[t])].call = "delete_edge"
    /\ threads[t].arg.edge_id \notin DOMAIN edges

\* C24: delete_edge writes an adjacency record right after reading it, and
\* only if the record it read was stored and held the edge id; a read of a
\* record that holds the id is followed by the write of that record, and a
\* read of an absent record or of one without the id by no write of it and
\* by no error.
C24_RemovalWritesChangedOnly ==
  \A t \in Threads :
    threads[t].op = "delete_edge" =>
      LET L == log[t]
          edge_id == threads[t].arg.edge_id
      IN  /\ threads[t].pc # "raised"
          /\ \A i \in CallsOf(L, "put_adjacency") :
               /\ i > 1
               /\ L[i - 1].call = "get_adjacency"
               /\ L[i - 1].key = L[i].key
               /\ edge_id \in IdsOfRaw(L[i - 1].value)
          /\ \A i \in CallsOf(L, "get_adjacency") :
               /\ (edge_id \in IdsOfRaw(L[i].value) /\ i < Len(L)) =>
                    (L[i + 1].call = "put_adjacency" /\ L[i + 1].key = L[i].key)
               /\ (edge_id \notin IdsOfRaw(L[i].value) /\ i < Len(L)) =>
                    L[i + 1].call # "put_adjacency"

\* The threads inside or past a method.
Entered == {t \in Threads : threads[t] # IdleThread}

\* One put_edge(e) built the store, so e is stored and indexed once at each
\* endpoint, and every call since is a delete_edge(e.id).
DeleteScenario ==
  /\ last.op = "put_edge"
  /\ Entered # {}
  /\ nops = 1 + Cardinality(Entered)
  /\ \A t \in Entered : threads[t].arg.edge_id = last.id

\* In the store st the edge record of edge_id is gone and an adjacency
\* record holds the id.
DanglingIn(st, edge_id) ==
  /\ edge_id \notin DOMAIN st.edges
  /\ \E n \in DOMAIN st.adj : edge_id \in IdsOfRaw(st.adj[n])

\* In the store st the edge e is stored and its id is missing from the
\* record of an endpoint.
UnindexedIn(st, e) ==
  /\ e.id \in DOMAIN st.edges
  /\ \E n \in {e.source, e.target} : e.id \notin IdsOfRaw(store_get(st.adj, n))

DanglingEntry == DanglingIn(store, last.id)

\* The edge records and the adjacency records disagree about the scenario's
\* edge: it is stored without being listed at both endpoints, or it is gone
\* and still listed.
IndexDisagrees == UnindexedIn(store, last.edges[1]) \/ DanglingEntry

\* The edge e is stored in st and indexed once at each endpoint: each
\* adjacency record is a dict that holds e.id once under 'source' if it is
\* the record of e.source, once under 'target' if it is the record of
\* e.target, and not otherwise.
IndexedOnce(st, e) ==
  /\ get_edge(st, e.id) = e
  /\ {e.source, e.target} \subseteq DOMAIN st.adj
  /\ \A n \in DOMAIN st.adj :
       LET rec == deserialize(st.adj[n])
       IN  IF is_list(rec) THEN e.id \notin ToSet(rec.list)
           ELSE /\ Count(DictGet(rec, "source", <<>>), e.id) = IF n = e.source THEN 1 ELSE 0
                /\ Count(DictGet(rec, "target", <<>>), e.id) = IF n = e.target THEN 1 ELSE 0

\* The stores a delete_edge call can be stopped in by a crash between two of
\* its KVStore calls: it has made a call (made > 0) and has one to make.
RECURSIVE delete_edge_crashed(_, _, _)
delete_edge_crashed(st, th, made) ==
  IF ~Running(th) THEN {}
  ELSE LET res == delete_edge_store_call(st, th)
       IN  (IF made > 0 THEN {st} ELSE {}) \cup
             delete_edge_crashed(Store(res.nodes, res.edges, res.adj), res.th, made + 1)

\* The stores two delete_edge calls leave when both have returned, over
\* every interleaving of their KVStore calls.
RECURSIVE delete_edge_interleaved(_, _, _)
delete_edge_interleaved(st, th1, th2) ==
  LET res1 == delete_edge_store_call(st, th1)
      res2 == delete_edge_store_call(st, th2)
  IN  IF ~Running(th1) /\ ~Running(th2) THEN {st}
      ELSE (IF Running(th1)
            THEN delete_edge_interleaved(Store(res1.nodes, res1.edges, res1.adj),
                                         res1.th, th2)
            ELSE {})
           \cup
           (IF Running(th2)
            THEN delete_edge_interleaved(Store(res2.nodes, res2.edges, res2.adj),
                                         th1, res2.th)
            ELSE {})

\* The stores the executions of C28 can leave from st: a delete_edge(edge_id)
\* stopped by a crash between two KVStore calls, or two delete_edge(edge_id)
\* interleaved.
DeleteOutcomes(st, edge_id) ==
  delete_edge_crashed(st, delete_edge_thread(edge_id), 0) \cup
  delete_edge_interleaved(st, delete_edge_thread(edge_id), delete_edge_thread(edge_id))

\* C28, as stated: from a store where edge e is stored and indexed once at
\* each endpoint, a delete_edge(e.id) stopped by a crash between two KVStore
\* calls, or interleaved with another delete_edge(e.id), can leave a store
\* where an adjacency record holds e.id and the edge record of e is gone.
C28_DanglingAfterDelete ==
  AllIdle =>
    \A e \in StoredEdges(store) :
      IndexedOnce(store, e) =>
        \E st \in DeleteOutcomes(store, e.id) : DanglingIn(st, e.id)

\* C28, amended: from such a store no crash point and no interleaving of
\* these calls leaves an adjacency record holding e.id with the edge record
\* gone; a crash can leave the edge record stored with its id missing from
\* the record of an endpoint.  The same holds state by state of the threads
\* that run delete_edge(e.id) after one put_edge(e), crashes and
\* interleavings combined.
C28_NoDanglingAfterDelete ==
  /\ AllIdle =>
       \A e \in StoredEdges(store) :
         IndexedOnce(store, e) =>
           /\ \A st \in DeleteOutcomes(store, e.id) : ~DanglingIn(st, e.id)
           /\ \E st \in DeleteOutcomes(store, e.id) : UnindexedIn(st, e)
  /\ DeleteScenario =>
       /\ ~DanglingEntry
       /\ IndexDisagrees => last.id \in DOMAIN edges

\* A delete_edge crashed, nothing is running, and the edge is stored but its
\* id is not in the adjacency record of its source.
C28_Witness ==
  /\ DeleteScenario
  /\ \E t \in Entered : threads[t].pc = "crashed"
  /\ \A t \in Threads : ~Running(threads[t])
  /\ last.id \in DOMAIN edges
  /\ last.id \notin IdsOfRaw(store_get(adj, last.edges[1].source))

\* The ids and the endpoint nodes of a list of edges.
BatchIds(es) == {es[i].id : i \in DOMAIN es}
BatchEndpoints(es) == {es[i].source : i \in DOMAIN es} \cup {es[i].target : i \in DOMAIN es}

\* C26: a put_edges_bulk(E) that returned made, in this order, one
\* put_edges_bulk call holding every edge id of E, one get_adjacency call
\* for each distinct endpoint of E, and one put_adjacency_bulk call covering
\* those endpoints; it never calls put_adjacency.
C26_BulkShape ==
  threads[1].op = "put_edges_bulk" =>
    LET L == log[1]
        es == threads[1].arg.edges
        n == Cardinality(BatchEndpoints(es))
    IN  /\ CallsOf(L, "put_adjacency") = {}
        /\ threads[1].pc = "returned" =>
             /\ Len(L) = n + 2
             /\ L[1].call = "put_edges_bulk"
             /\ L[1].key = BatchIds(es)
             /\ DOMAIN L[1].value = BatchIds(es)
             /\ \A i \in 2..(n + 1) : L[i].call = "get_adjacency"
             /\ {L[i].key : i \in 2..(n + 1)} = BatchEndpoints(es)
             /\ L[n + 2].call = "put_adjacency_bulk"
             /\ L[n + 2].key = BatchEndpoints(es)

\* A put_edges_bulk of two edges with two ids over the same two nodes
\* returned: four edge ends, two adjacency reads.
C26_Witness ==
  /\ threads[1].op = "put_edges_bulk"
  /\ threads[1].pc = "returned"
  /\ Len(threads[1].arg.edges) = 2
  /\ Cardinality(BatchIds(threads[1].arg.edges)) = 2
  /\ Cardinality(BatchEndpoints(threads[1].arg.edges)) = 2
  /\ \A i \in DOMAIN threads[1].arg.edges :
       threads[1].arg.edges[i].source # threads[1].arg.edges[i].target
  /\ Len(log[1]) = 4

\* The properties a stored node record (or None) holds: update_node starts
\* from no properties when the node is absent.
PropsOfRaw(raw) ==
  IF raw = None THEN EmptyProps ELSE Node_from_dict(deserialize(raw)).properties

\* Both threads returned from update_node on the same node id.
BothUpdated ==
  /\ \A t \in Threads : threads[t].op = "update_node" /\ threads[t].pc = "returned"
  /\ threads[1].arg.node_id = threads[2].arg.node_id

\* The properties stored under the node id of thread t's call.
StoredProps(t) == PropsOfRaw(store_get(nodes, threads[t].arg.node_id))

\* C27: two update_node calls on one id never raise.  When one of them
\* wrote while the other held a read it had not yet written (they are
\* interleaved), both read the same base and the stored properties are
\* merge_func(base, new_data) of the later writer alone.  When they ran one
\* after the other, the stored properties are the second merge applied to
\* the result of the first.
C27_UpdateNodeRace ==
  /\ \A t \in Threads : threads[t].op = "update_node" => threads[t].pc # "raised"
  /\ BothUpdated =>
       \E t \in Threads :
         LET u == CHOOSE x \in Threads : x # t
             base == PropsOfRaw(log[t][1].value)
         IN  \/ /\ log[t][2].over = {u}
                /\ log[u][2].over = {}
                /\ log[u][1].value = log[t][1].value
                /\ StoredProps(u) =
                     Merge(threads[u].arg.merge_func, base, threads[u].arg.new_data)
             \/ /\ log[t][2].over = {}
                /\ log[u][2].over = {}
                /\ log[u][1].value = log[t][2].value
                /\ StoredProps(u) =
                     Merge(threads[u].arg.merge_func,
                           Merge(threads[t].arg.merge_func, base, threads[t].arg.new_data),
                           threads[u].arg.new_data)

\* Two interleaved update_node calls that merge by dict update and bring
\* different keys returned, and the stored node lacks the key of one of them.
C27_Witness ==
  /\ BothUpdated
  /\ \E t \in Threads : log[t][2].over # {}
  /\ \A t \in Threads : threads[t].arg.merge_func = "update"
  /\ threads[1].arg.new_data # threads[2].arg.new_data
  /\ \E t \in Threads : ~(threads[t].arg.new_data \subseteq StoredProps(t))

\* The put_adjacency calls of thread 2's put_edge on node n.
PutEdgeWrites(n) == {i \in CallsOf(log[2], "put_adjacency") : log[2][i].key = n}

\* put_edges_bulk returned, and a put_edge of an edge outside the batch
\* returned having written the record of n only between the bulk call's read
\* of that record and its put_adjacency_bulk.
OvertakenAt(n) ==
  /\ threads[1].op = "put_edges_bulk" /\ threads[1].pc = "returned"
  /\ threads[2].op = "put_edge" /\ threads[2].pc = "returned"
  /\ threads[2].arg.edge.id \notin BatchIds(threads[1].arg.edges)
  /\ PutEdgeWrites(n) # {}
  /\ \A i \in PutEdgeWrites(n) : log[2][i].over = {1}

\* The put_adjacency_bulk of thread 1 takes the store from adj to adj'.
BulkAdjacencyWrite ==
  /\ threads[1].op = "put_edges_bulk"
  /\ threads[1].pc = "put_adjacency_bulk"
  /\ threads'[1].pc = "returned"

\* C29: after a put_edge wrote the record of n between the read and the
\* write of a put_edges_bulk whose batch has n as an endpoint, the edge of
\* the put_edge is stored and its id is not in the record of n.  The bulk
\* call changes adjacency records in one step only, which sets the record of
\* every endpoint of the batch.
C29_BulkOverwrites ==
  /\ [](\A n \in NodeIds :
          OvertakenAt(n) =>
            /\ n \in BatchEndpoints(threads[1].arg.edges)
            /\ threads[2].arg.edge.id \in DOMAIN edges
            /\ threads[2].arg.edge.id \notin IdsOfRaw(store_get(adj, n)))
  /\ [][/\ (put_edges_bulk_step(1) /\ adj' # adj) => BulkAdjacencyWrite
        /\ BulkAdjacencyWrite =>
             \A n \in BatchEndpoints(threads[1].arg.edges) :
               store_get(adj', n) = threads[1].local[n]]_vars

\* A put_edge overtook a put_edges_bulk at a node; both returned, the edge is
\* stored and the record of the node does not list it.
C29_Witness ==
  \E n \in NodeIds :
    /\ OvertakenAt(n)
    /\ threads[2].arg.edge.id \in DOMAIN edges
    /\ n \in DOMAIN adj
    /\ threads[2].arg.edge.id \notin IdsOfRaw(adj[n])

====
